---- MODULE Spec2Model ----
(***************************************************************************)
(* A model of engagement_script.py: the proxy rotator, the daily quota     *)
(* tracker, the request executor with its re-login retry, and the run of   *)
(* main() over the shuffled target accounts. Beside the run (Spec) there   *)
(* are unit runs of the ProxyManager, the EngagementTracker, the executor, *)
(* get_active_followers and process_posts / process_stories; the date and  *)
(* the hour change in the unit runs only.                                  *)
(***************************************************************************)
EXTENDS Integers, Sequences, FiniteSets, TLC

(* ------------------------------------------------------------------ *)
(* Program constants                                                    *)
(* ------------------------------------------------------------------ *)
DAILY_LIMIT == 200
SAVE_EVERY == 10
POST_AGE_LIMIT_DAYS == 15

(* ------------------------------------------------------------------ *)
(* Bounds of the model                                                  *)
(* ------------------------------------------------------------------ *)
NumTargets == 2
MaxFollowers == 1
RecursionLimit == 3
MaxProxies == 3
MaxCalls == 7
MaxDate == 2
MaxStartCount == 11
MaxIncs == 21
MaxPage == 3
MaxLimit == 2
MaxLikes == 3

ProxyNames == {"p1", "p2"}
NoProxy == "none"
NoDate == 0
Dates == 1..MaxDate
Targets == 1..NumTargets

VARIABLES
    pc,            \* control position of the process
    exitCode,      \* status the process exits (or is about to exit) with
    exitCause,     \* which statement ended the process abnormally
    proxies,       \* ProxyManager.proxies
    index,         \* ProxyManager.index
    served,        \* values returned by get_proxy, in call order (unit run)
    sessionFile,   \* session.json exists
    today,         \* the calendar date datetime.today() reports
    lastRunFile,   \* content of last_run.json
    likes_today,   \* EngagementTracker.likes_today
    trackerBuilt,  \* EngagementTracker() has been constructed
    incs,          \* increment_likes calls since construction
    writes,        \* save_last_run calls since process start
    resetOnLoad,   \* reset_counters took the date-mismatch branch
    loaded,        \* what load_last_run returned to reset_counters
    metricsSaved,  \* save_metrics appended the metrics line
    audit,         \* kinds of the error, cooldown and session events in audit_log.json
    order,         \* TARGET_ACCOUNTS after random.shuffle
    acct,          \* position of the for loop in order
    processed,     \* accounts handed to process_target_account, in order
    attempts,      \* attempts of the operation made by the running _secure_request
    loginFailure,  \* the login attempt of the last request that raised a client error
    follower_limit,\* local of process_target_account
    followers,     \* length of the follower page of get_active_followers
    fpos,          \* position of the follower loop
    active,        \* active_followers
    apos,          \* position of the engagement loop over active_followers
    hour,          \* the hour datetime.now() reports
    hourly,        \* metrics["hourly_engagement"]
    likeCalls,     \* secure_media_like and secure_story_like calls that returned
    incsToday,     \* increment_likes calls made since the date was last seen to change
    cooldowns,     \* account cooldowns main() has slept
    sample,        \* how many followers get_active_followers gave the account just ended
    incsAtStart,   \* incs when the account in progress (or just ended) began
    inv,           \* tally of one _secure_request invocation (unit run)
    page,          \* what the checks of each follower of the page lead to (unit run)
    limit,         \* the limit get_active_followers is called with (unit run)
    returned,      \* what get_active_followers returned (unit run)
    ret,           \* what process_posts or process_stories returned last (unit run)
    slept          \* the last time.sleep: its kind, duration and hour (unit run)

vars == <<pc, exitCode, exitCause, proxies, index, served, sessionFile, today,
          lastRunFile, likes_today, trackerBuilt, incs, writes, resetOnLoad,
          loaded, metricsSaved, audit, order, acct, processed, attempts,
          loginFailure,
          follower_limit, followers, fpos, active, apos,
          hour, hourly, likeCalls, incsToday, cooldowns, sample, incsAtStart,
          inv, page, limit, returned, ret, slept>>

exitVars == <<exitCode, exitCause>>
loopVars == <<order, acct, processed, cooldowns, sample, incsAtStart>>
locals == <<follower_limit, followers, fpos, active, apos>>
procVars == <<pc, exitVars, sessionFile, metricsSaved, audit, loopVars, attempts,
              loginFailure, locals>>
trackerVars == <<lastRunFile, likes_today, trackerBuilt, incs, writes, resetOnLoad,
                 loaded, incsToday, hourly, likeCalls>>
unitVars == <<inv, page, limit, returned, ret, slept>>
proxyVars == <<proxies, index>>

(* ------------------------------------------------------------------ *)
(* ProxyManager                                                         *)
(* ------------------------------------------------------------------ *)
SeqsUpTo(S, n) == UNION {[1..k -> S] : k \in 0..n}

\* _load_proxies: the non-blank lines of proxies.txt, or [] without a file
ProxyPools == SeqsUpTo(ProxyNames, MaxProxies)

\* get_proxy: the value returned
get_proxy(ps, i) == IF Len(ps) = 0 THEN NoProxy ELSE ps[i + 1]

\* get_proxy: the cursor after the call
BadNextIndex(ps, i) == IF Len(ps) = 0 THEN i ELSE IF i + 1 >= Len(ps) THEN i ELSE i + 1

NextIndex(ps, i) == IF Len(ps) = 0 THEN i ELSE (i + 1) % Len(ps)

(* ------------------------------------------------------------------ *)
(* EngagementTracker                                                    *)
(* ------------------------------------------------------------------ *)
AbsentFile == [present |-> FALSE, date |-> NoDate, count |-> 0]
Record(d, c) == [present |-> TRUE, date |-> d, count |-> c]

\* load_last_run: the record, or {"date": "", "count": 0} without a readable file
load_last_run(file) == IF file.present THEN [date |-> file.date, count |-> file.count]
                       ELSE [date |-> NoDate, count |-> 0]

\* save_last_run(count): the file after the write
save_last_run(count, day) == Record(day, count)

\* reset_counters: likes_today, the file and the number of writes it leaves
BadResetCounters(file, day) ==
    LET data == load_last_run(file)
    IN  [likes |-> data.count, file |-> file, wrote |-> 0, reset |-> data.date # day]

reset_counters(file, day) ==
    LET data == load_last_run(file)
    IN  IF data.date # day
        THEN [likes |-> 0, file |-> save_last_run(0, day), wrote |-> 1, reset |-> TRUE]
        ELSE [likes |-> data.count, file |-> file, wrote |-> 0, reset |-> FALSE]

\* increment_likes: likes_today, the file and the number of writes it leaves
LateSaveIncrement(likes, file, day) ==
    LET n == likes + 1
    IN  IF n % (SAVE_EVERY + 1) = 0
        THEN [likes |-> n, file |-> save_last_run(n, day), wrote |-> 1]
        ELSE [likes |-> n, file |-> file, wrote |-> 0]

EagerSaveIncrement(likes, file, day) ==
    LET n == likes + 1
    IN  IF n % (SAVE_EVERY - 1) = 0
        THEN [likes |-> n, file |-> save_last_run(n, day), wrote |-> 1]
        ELSE [likes |-> n, file |-> file, wrote |-> 0]

increment_likes(likes, file, day) ==
    LET n == likes + 1
    IN  IF n % SAVE_EVERY = 0
        THEN [likes |-> n, file |-> save_last_run(n, day), wrote |-> 1]
        ELSE [likes |-> n, file |-> file, wrote |-> 0]

\* track_hourly_engagement: metrics["hourly_engagement"] after the call at hour h
OverwriteHourly(hist, h) == [hist EXCEPT ![h] = 1]

track_hourly_engagement(hist, h) == [hist EXCEPT ![h] = @ + 1]

\* limit_reached (a property no statement of the program reads)
limit_reached(likes) == likes >= DAILY_LIMIT

\* the calendar date moves on while the tracker is in use (only the tracker
\* reads the date, so its unit run is where a change of date is explored)
DateChange ==
    /\ today < MaxDate
    /\ pc # "exited"
    /\ today' = today + 1
    /\ incsToday' = 0
    /\ UNCHANGED <<procVars, lastRunFile, likes_today, trackerBuilt, incs, writes,
                   resetOnLoad, loaded, hourly, likeCalls, proxyVars, served, hour,
                   unitVars>>

(* ------------------------------------------------------------------ *)
(* Unit run of the ProxyManager: construction, then get_proxy calls     *)
(* ------------------------------------------------------------------ *)
NoSample == -1
NoReturn == -1
NoSleep == [kind |-> "none", delay |-> 0, hour |-> 0]
NoInvocation == [answers |-> <<>>, calls |-> 0, errs |-> 0, rots |-> 0, logins |-> 0,
                 result |-> "none"]
Hours == 0..23
NoEngagement == [h \in Hours |-> 0]
RunHours == {12}

IdleProc ==
    /\ exitCode = 0 /\ exitCause = "none" /\ sessionFile = FALSE
    /\ metricsSaved = FALSE /\ audit = {} /\ order = <<>> /\ acct = 0
    /\ processed = <<>> /\ attempts = 0 /\ loginFailure = "none"
    /\ follower_limit = 0 /\ followers = 0 /\ fpos = 0 /\ active = <<>> /\ apos = 0
    /\ cooldowns = 0 /\ sample = NoSample /\ incsAtStart = 0

IdleMonitor == hourly = NoEngagement /\ likeCalls = 0 /\ incsToday = 0

IdleTracker ==
    /\ lastRunFile = AbsentFile /\ likes_today = 0 /\ trackerBuilt = FALSE
    /\ incs = 0 /\ writes = 0 /\ resetOnLoad = FALSE /\ loaded = AbsentFile
    /\ IdleMonitor

IdleUnits ==
    /\ inv = NoInvocation /\ page = <<>> /\ limit = 0 /\ returned = <<>>
    /\ ret = NoReturn /\ slept = NoSleep

InitProxy ==
    /\ pc = "proxy_unit"
    /\ IdleProc /\ IdleTracker /\ IdleUnits
    /\ today = 1 /\ hour \in RunHours
    /\ proxies \in ProxyPools
    /\ index = 0
    /\ served = <<>>

GetProxyCall ==
    /\ pc = "proxy_unit"
    /\ Len(served) < MaxCalls
    /\ served' = Append(served, get_proxy(proxies, index))
    /\ index' = NextIndex(proxies, index)
    /\ UNCHANGED <<procVars, trackerVars, proxies, today, hour, unitVars>>

NextProxy == GetProxyCall

SpecProxy == InitProxy /\ [][NextProxy]_vars

(* ------------------------------------------------------------------ *)
(* Unit run of the EngagementTracker: construction, increments, and     *)
(* the save main() makes at shutdown                                    *)
(* ------------------------------------------------------------------ *)
StartCounts == (0..MaxStartCount) \cup {DAILY_LIMIT - 1, DAILY_LIMIT}
LastRunFiles(counts) == {AbsentFile} \cup {Record(d, c) : d \in Dates, c \in counts}

InitTracker ==
    /\ pc = "tracker_unit"
    /\ IdleProc /\ IdleMonitor /\ IdleUnits
    /\ proxies = <<>> /\ index = 0 /\ served = <<>>
    /\ today \in Dates /\ hour \in RunHours
    /\ lastRunFile \in LastRunFiles(StartCounts)
    /\ likes_today = 0 /\ trackerBuilt = FALSE
    /\ incs = 0 /\ writes = 0 /\ resetOnLoad = FALSE /\ loaded = AbsentFile

TrackerConstruct ==
    /\ pc = "tracker_unit"
    /\ ~trackerBuilt
    /\ LET r == reset_counters(lastRunFile, today)
       IN  /\ likes_today' = r.likes
           /\ lastRunFile' = r.file
           /\ writes' = writes + r.wrote
           /\ resetOnLoad' = r.reset
    /\ loaded' = lastRunFile
    /\ trackerBuilt' = TRUE
    /\ UNCHANGED <<procVars, proxyVars, served, today, hour, unitVars, incs,
                   incsToday, hourly, likeCalls>>

TrackerIncrement ==
    /\ pc = "tracker_unit"
    /\ trackerBuilt
    /\ incs < MaxIncs
    /\ LET r == increment_likes(likes_today, lastRunFile, today)
       IN  /\ likes_today' = r.likes
           /\ lastRunFile' = r.file
           /\ writes' = writes + r.wrote
    /\ incs' = incs + 1
    /\ incsToday' = incsToday + 1
    /\ UNCHANGED <<procVars, proxyVars, served, today, hour, unitVars, trackerBuilt,
                   resetOnLoad, loaded, hourly, likeCalls>>

TrackerFinalSave ==
    /\ pc = "tracker_unit"
    /\ trackerBuilt
    /\ lastRunFile' = save_last_run(likes_today, today)
    /\ writes' = writes + 1
    /\ pc' = "exited"
    /\ UNCHANGED <<exitVars, sessionFile, metricsSaved, audit, loopVars, attempts,
                   loginFailure, locals, proxyVars, served, today, hour, unitVars,
                   likes_today, trackerBuilt, incs, resetOnLoad, loaded, incsToday,
                   hourly, likeCalls>>

NextTracker ==
    \/ TrackerConstruct
    \/ TrackerIncrement
    \/ TrackerFinalSave
    \/ DateChange

SpecTracker == InitTracker /\ [][NextTracker]_vars

(* ------------------------------------------------------------------ *)
(* AdaptiveSafeClient: _login and _secure_request                       *)
(* ------------------------------------------------------------------ *)
\* what the platform answers to one call of the wrapped operation
CallAnswers == {"ok", "login_required", "client_error", "other"}

\* what the platform answers to login(), and to the login with the code
LoginAnswers == {"ok", "two_factor_ok", "two_factor_client_error", "client_error",
                 "other"}

\* one attempt of _secure_request: the answer to the call and, after
\* login_required, the answer to the login that follows
AttemptAnswers == {a \in CallAnswers \X LoginAnswers : a[1] = "login_required" \/ a[2] = "ok"}

\* _login: returns, exits the process, or raises out of the handler of
\* TwoFactorRequired (no sibling except clause covers a handler)
login_result(l) ==
    CASE l \in {"ok", "two_factor_ok"} -> "return"
      [] l = "client_error" -> "sys_exit"
      [] l = "two_factor_client_error" -> "raise_client"
      [] OTHER -> "raise_other"

\* _secure_request: what one attempt leads to, n attempts having been made
\* before it in this invocation. After a login_required answer and a login
\* that returns, the request calls itself again; the interpreter's recursion
\* limit is the only ceiling on that.
secure_request_result(r, l, n) ==
    CASE r = "ok" -> "return"
      [] r = "client_error" -> "raise_client"
      [] r = "other" -> "raise_other"
      [] r = "login_required" ->
            IF login_result(l) = "return"
            THEN IF n + 1 < RecursionLimit THEN "retry" ELSE "raise_other"
            ELSE login_result(l)

Final == {"return", "raise_client", "raise_other"}
Raises == {"raise_client", "raise_other"}

\* session.json after the attempt: dump_settings follows a login that returned
SessionAfter(r, l) ==
    IF r = "login_required" /\ login_result(l) = "return" THEN TRUE ELSE sessionFile

LoginFailureAfter(r, l) ==
    IF r = "login_required" /\ l = "two_factor_client_error" THEN "retry"
    ELSE IF r = "login_required" /\ l = "client_error" THEN "first"
    ELSE "none"

StartupSites == {"load_session"}
LoopSites == {"pta_resolve", "pta_info", "gaf_resolve", "gaf_followers", "gaf_info",
              "gaf_stories", "gaf_medias", "pp_medias", "pp_like", "ps_stories",
              "ps_like"}
CallSites == StartupSites \cup LoopSites

\* the last attempt of an invocation: get_proxy, the call, and the way out
LastAttempt(r, l) ==
    /\ secure_request_result(r, l, attempts) \in Final
    /\ index' = NextIndex(proxies, index)
    /\ attempts' = 0
    /\ loginFailure' = LoginFailureAfter(r, l)
    /\ UNCHANGED <<proxies, served, today, hour, unitVars>>

\* an attempt answered login_required, a login that returns, and the retry
ExecRetry ==
    /\ pc \in CallSites
    /\ \E l \in LoginAnswers :
        /\ secure_request_result("login_required", l, attempts) = "retry"
        /\ sessionFile' = SessionAfter("login_required", l)
    /\ attempts' = attempts + 1
    /\ index' = NextIndex(proxies, index)
    /\ loginFailure' = "none"
    /\ UNCHANGED <<pc, exitVars, metricsSaved, audit, loopVars, locals, trackerVars,
                   proxies, served, today, hour, unitVars>>

\* an attempt answered login_required and a login that ends in sys.exit(1):
\* SystemExit passes every "except Exception"; inside main's try the finally
\* block still runs
ExecLoginFatal ==
    /\ pc \in CallSites
    /\ secure_request_result("login_required", "client_error", attempts) = "sys_exit"
    /\ index' = NextIndex(proxies, index)
    /\ attempts' = 0
    /\ loginFailure' = "first"
    /\ exitCode' = 1
    /\ exitCause' = "relogin"
    /\ pc' = IF pc \in StartupSites THEN "exited" ELSE "finalize"
    /\ UNCHANGED <<sessionFile, metricsSaved, audit, loopVars, locals, trackerVars,
                   proxies, served, today, hour, unitVars>>

(* ------------------------------------------------------------------ *)
(* Delays. A duration is a number of tenths of a second.                *)
(* ------------------------------------------------------------------ *)
\* random.uniform(lo, hi): the lowest, the middle and the highest of the
\* values it may return
uniform(lo, hi) == {lo, (lo + hi) \div 2, hi}

\* the range time.sleep is given after a like, in seconds
ENGAGE_DELAY == <<30, 55>>

\* the sleep of process_posts and process_stories after a like
engagement_sleep == uniform(ENGAGE_DELAY[1] * 10, ENGAGE_DELAY[2] * 10)

\* get_time_aware_delay: the range it draws from at hour h (0.7 of the
\* base range in the peak hours, 1.3 of it otherwise), and its values
time_aware_range(base_range, h) ==
    IF 8 <= h /\ h < 20
    THEN <<base_range[1] * 7, base_range[2] * 7>>
    ELSE <<base_range[1] * 13, base_range[2] * 13>>

get_time_aware_delay(base_range, h) ==
    uniform(time_aware_range(base_range, h)[1], time_aware_range(base_range, h)[2])

(* ------------------------------------------------------------------ *)
(* Unit run of get_active_followers: one call over a follower page      *)
(* ------------------------------------------------------------------ *)
\* what the checks of one follower of the page lead to: secure_user_info
\* raised, or reported a private profile; secure_user_stories raised, or
\* returned stories; with no stories secure_user_medias raised, returned a
\* post, or returned none
FollowerChecks == {"info_failed", "private", "stories_failed", "stories",
                   "medias_failed", "medias", "inactive"}

\* get_active_followers: the break of its loop, n followers being collected
SampleOverfull(n, lim) == n > lim

sample_full(n, lim) == n >= lim

\* the condition of the if, when nothing was raised before it was decided
is_active(c) == c \in {"stories", "medias"}

\* the for loop from position i of the page, acc being collected; a
\* follower is named by its position in the page
RECURSIVE followers_loop(_, _, _, _)
followers_loop(pg, i, lim, acc) ==
    IF i > Len(pg) THEN acc
    ELSE LET acc2 == IF is_active(pg[i]) THEN Append(acc, i) ELSE acc
         IN  IF sample_full(Len(acc2), lim) THEN acc2
             ELSE followers_loop(pg, i + 1, lim, acc2)

get_active_followers(pg, lim) == followers_loop(pg, 1, lim, <<>>)

InitSampler ==
    /\ pc = "sampler_unit"
    /\ IdleProc /\ IdleTracker
    /\ today = 1 /\ hour \in RunHours
    /\ proxies = <<>> /\ index = 0 /\ served = <<>>
    /\ inv = NoInvocation /\ ret = NoReturn /\ slept = NoSleep
    /\ page \in SeqsUpTo(FollowerChecks, MaxPage)
    /\ limit \in 1..MaxLimit
    /\ returned = <<>>

\* the call: it raises what secure_user_id_from_username or
\* secure_user_followers raises, and returns the list otherwise
GetActiveFollowers ==
    /\ pc = "sampler_unit"
    /\ \/ /\ pc' = "sampler_done"
          /\ returned' = get_active_followers(page, limit)
       \/ /\ pc' = "sampler_raised"
          /\ UNCHANGED returned
    /\ UNCHANGED <<exitVars, sessionFile, metricsSaved, audit, loopVars, attempts,
                   loginFailure, locals, trackerVars, proxyVars, served, today, hour,
                   inv, page, limit, ret, slept>>

NextSampler == GetActiveFollowers

SpecSampler == InitSampler /\ [][NextSampler]_vars

(* ------------------------------------------------------------------ *)
(* Unit run of _secure_request: invocations one after another, each     *)
(* tallied from its first attempt to its return, raise or exit          *)
(* ------------------------------------------------------------------ *)
\* one attempt answered r: the track_call, track_error, _rotate_device and
\* _login calls its try body or its except clause makes. The clause of
\* LoginRequired records no error; that of ClientError records one and
\* rotates; that of Exception records one.
TallyLoginAsClientError(r) ==
    CASE r = "ok" -> [calls |-> 1, errs |-> 0, rots |-> 0, logins |-> 0]
      [] r = "login_required" -> [calls |-> 0, errs |-> 1, rots |-> 2, logins |-> 1]
      [] r = "client_error" -> [calls |-> 0, errs |-> 1, rots |-> 1, logins |-> 0]
      [] OTHER -> [calls |-> 0, errs |-> 1, rots |-> 0, logins |-> 0]

TallyNoRotation(r) ==
    CASE r = "ok" -> [calls |-> 1, errs |-> 0, rots |-> 0, logins |-> 0]
      [] r = "login_required" -> [calls |-> 0, errs |-> 0, rots |-> 1, logins |-> 1]
      [] r = "client_error" -> [calls |-> 0, errs |-> 1, rots |-> 0, logins |-> 0]
      [] OTHER -> [calls |-> 0, errs |-> 1, rots |-> 0, logins |-> 0]

attempt_tally(r) ==
    CASE r = "ok" -> [calls |-> 1, errs |-> 0, rots |-> 0, logins |-> 0]
      [] r = "login_required" -> [calls |-> 0, errs |-> 0, rots |-> 1, logins |-> 1]
      [] r = "client_error" -> [calls |-> 0, errs |-> 1, rots |-> 1, logins |-> 0]
      [] OTHER -> [calls |-> 0, errs |-> 1, rots |-> 0, logins |-> 0]

\* the recursive call that passes the recursion limit: RecursionError is
\* raised at the call in the except clause (nothing recorded) or inside the
\* try body of the new frame (its "except Exception" records an error)
overflow_errs(r, l, n) ==
    IF r = "login_required" /\ login_result(l) = "return" /\ n + 1 >= RecursionLimit
    THEN {0, 1} ELSE {0}

InitExec ==
    /\ pc = "exec_unit"
    /\ IdleProc /\ IdleTracker /\ IdleUnits
    /\ today = 1 /\ hour \in RunHours
    /\ proxies \in ProxyPools
    /\ index = 0
    /\ served = <<>>

\* one attempt of the invocation in progress, or the first attempt of a new one
SecureRequestAttempt ==
    /\ pc = "exec_unit"
    /\ \E <<r, l>> \in AttemptAnswers :
        LET res == secure_request_result(r, l, attempts)
            before == IF attempts = 0 THEN NoInvocation ELSE inv
            t == attempt_tally(r)
        IN  /\ \E e \in overflow_errs(r, l, attempts) :
                  inv' = [answers |-> Append(before.answers, r),
                          calls |-> before.calls + t.calls,
                          errs |-> before.errs + t.errs + e,
                          rots |-> before.rots + t.rots,
                          logins |-> before.logins + t.logins,
                          result |-> IF res = "retry" THEN "running" ELSE res]
            /\ attempts' = IF res = "retry" THEN attempts + 1 ELSE 0
            /\ sessionFile' = SessionAfter(r, l)
            /\ loginFailure' = LoginFailureAfter(r, l)
            /\ IF res = "sys_exit"
               THEN /\ pc' = "exited"
                    /\ exitCode' = 1
                    /\ exitCause' = "relogin"
               ELSE UNCHANGED <<pc, exitVars>>
    /\ index' = NextIndex(proxies, index)
    /\ UNCHANGED <<metricsSaved, audit, loopVars, locals, trackerVars, proxies, served,
                   today, hour, page, limit, returned, ret, slept>>

NextExec == SecureRequestAttempt

SpecExec == InitExec /\ [][NextExec]_vars

(* ------------------------------------------------------------------ *)
(* main(): start-up                                                     *)
(* ------------------------------------------------------------------ *)
\* the inputs of a run, which starts on day 1: no proxies or two, and
\* last_run.json missing or written one like short of the limit, on day 1
\* or on another day
RunPools == {<<>>, <<"p1", "p2">>}
RunFiles == {AbsentFile, Record(1, DAILY_LIMIT - 1), Record(MaxDate, DAILY_LIMIT - 1)}

Init ==
    /\ pc = "main"
    /\ exitCode = 0 /\ exitCause = "none"
    /\ proxies \in RunPools /\ index = 0 /\ served = <<>>
    /\ sessionFile \in BOOLEAN
    /\ today = 1 /\ hour \in RunHours
    /\ lastRunFile \in RunFiles
    /\ likes_today = 0 /\ trackerBuilt = FALSE
    /\ incs = 0 /\ writes = 0 /\ resetOnLoad = FALSE /\ loaded = AbsentFile
    /\ IdleMonitor /\ IdleUnits
    /\ metricsSaved = FALSE /\ audit = {}
    /\ order = <<>> /\ acct = 0 /\ processed = <<>>
    /\ cooldowns = 0 /\ sample = NoSample /\ incsAtStart = 0
    /\ attempts = 0 /\ loginFailure = "none"
    /\ follower_limit = 0 /\ followers = 0 /\ fpos = 0 /\ active = <<>> /\ apos = 0

\* an exception nothing catches before main's try: traceback, status 1
Crash ==
    /\ pc' = "exited"
    /\ exitCode' = 1
    /\ exitCause' = "uncaught"

\* main up to _load_session: session_start, ProxyManager(), _rotate_device,
\* and the read of session.json (a file that does not parse is removed)
MainStart ==
    /\ pc = "main"
    /\ audit' = audit \cup {"session_start"}
    /\ index' = 0
    /\ \/ /\ sessionFile
          /\ pc' = "load_session"
          /\ UNCHANGED sessionFile
       \/ /\ sessionFile
          /\ sessionFile' = FALSE
          /\ pc' = "initial_login"
       \/ /\ ~sessionFile
          /\ pc' = "initial_login"
          /\ UNCHANGED sessionFile
    /\ UNCHANGED <<exitVars, metricsSaved, loopVars, attempts, loginFailure, locals,
                   trackerVars, proxies, served, today, hour, unitVars>>

\* _load_session: secure_user_id_from_username through the loaded session
SessionResolve ==
    /\ pc = "load_session"
    /\ \E <<r, l>> \in AttemptAnswers :
        /\ LastAttempt(r, l)
        /\ LET res == secure_request_result(r, l, attempts)
           IN  \/ /\ res = "return"
                  /\ pc' = "tracker_init"
                  /\ sessionFile' = SessionAfter(r, l)
                  /\ UNCHANGED exitVars
               \/ /\ res = "raise_client"
                  /\ sessionFile' = FALSE
                  /\ pc' = "initial_login"
                  /\ UNCHANGED exitVars
               \/ /\ res = "raise_other"
                  /\ sessionFile' = SessionAfter(r, l)
                  /\ Crash
    /\ UNCHANGED <<metricsSaved, audit, loopVars, locals, trackerVars>>

\* _load_session: _login()
InitialLogin ==
    /\ pc = "initial_login"
    /\ \E l \in LoginAnswers :
        \/ /\ login_result(l) = "return"
           /\ sessionFile' = TRUE
           /\ pc' = "tracker_init"
           /\ UNCHANGED <<exitVars, loginFailure>>
        \/ /\ login_result(l) = "sys_exit"
           /\ pc' = "exited"
           /\ exitCode' = 1
           /\ exitCause' = "initial_login"
           /\ loginFailure' = "first"
           /\ UNCHANGED sessionFile
        \/ /\ login_result(l) \in Raises
           /\ Crash
           /\ loginFailure' = IF login_result(l) = "raise_client" THEN "retry"
                              ELSE loginFailure
           /\ UNCHANGED sessionFile
    /\ UNCHANGED <<metricsSaved, audit, loopVars, attempts, locals, trackerVars,
                   proxyVars, served, today, hour, unitVars>>

\* random.shuffle(TARGET_ACCOUNTS)
Shuffles == {p \in [Targets -> Targets] : \A t \in Targets : \E i \in Targets : p[i] = t}

\* EngagementTracker(), then the shuffle and the first turn of the for loop
TrackerInit ==
    /\ pc = "tracker_init"
    /\ LET t == reset_counters(lastRunFile, today)
       IN  /\ likes_today' = t.likes
           /\ lastRunFile' = t.file
           /\ writes' = writes + t.wrote
           /\ resetOnLoad' = t.reset
    /\ loaded' = lastRunFile
    /\ trackerBuilt' = TRUE
    /\ \E p \in Shuffles :
        /\ order' = p
        /\ acct' = 1
        /\ processed' = <<p[1]>>
    /\ pc' = "pta_resolve"
    /\ UNCHANGED <<exitVars, sessionFile, metricsSaved, audit, attempts,
                   loginFailure, locals, incs, proxyVars, served, today, hour, unitVars,
                   incsToday, hourly, likeCalls, cooldowns, sample, incsAtStart>>

(* ------------------------------------------------------------------ *)
(* process_target_account and the for loop of main()                    *)
(* ------------------------------------------------------------------ *)
\* get_follower_limit: the values random.randint may return
get_follower_limit(follower_count) ==
    IF follower_count < 10000 THEN 8..12
    ELSE IF follower_count < 100000 THEN 6..9
    ELSE 4..6

\* follower counts user_info reports in a run
FollowerCounts == {100000}

\* is_recent_post, on the age of the post in days
is_recent_post(age) == age < POST_AGE_LIMIT_DAYS

\* ages of the posts user_medias may return
PostAges == {POST_AGE_LIMIT_DAYS - 1, POST_AGE_LIMIT_DAYS}

\* the try/except around one account (process_target_account's and the
\* loop's): whatever is raised, the loop goes on
AbortOnError(raised) == IF raised THEN "abort" ELSE "continue"

account_outcome(raised) == "continue"

\* the except clause of process_target_account swallows whatever is raised:
\* nothing reaches the try of the for loop
PropagateRaised(raised) == raised

propagates_to_main(raised) == FALSE

\* process_target_account is over (its except clause has run when raised);
\* main logs the cooldown, sleeps and takes the next account. An exception
\* that reached the loop would skip the cooldown. smp is the number of
\* followers get_active_followers returned, start the value of incs when
\* the account began.
AccountDone(raised, aud, smp, start) ==
    /\ sample' = smp
    /\ incsAtStart' = start
    /\ IF account_outcome(raised) = "continue"
       THEN /\ IF propagates_to_main(raised)
               THEN /\ audit' = aud \cup {"error"}
                    /\ UNCHANGED cooldowns
               ELSE /\ audit' = aud \cup (IF raised THEN {"error"} ELSE {})
                                    \cup {"account_cooldown"}
                    /\ cooldowns' = cooldowns + 1
            /\ IF acct < Len(order)
               THEN /\ acct' = acct + 1
                    /\ processed' = Append(processed, order[acct + 1])
                    /\ pc' = "pta_resolve"
               ELSE /\ pc' = "finalize"
                    /\ UNCHANGED <<acct, processed>>
       ELSE /\ audit' = aud \cup {"error"}
            /\ pc' = "finalize"
            /\ UNCHANGED <<acct, processed, cooldowns>>
    /\ follower_limit' = 0 /\ followers' = 0 /\ fpos' = 0
    /\ active' = <<>> /\ apos' = 0
    /\ UNCHANGED <<order, exitVars, metricsSaved>>

\* the loop over active_followers starts (act is what get_active_followers
\* returned); follower_limit is not read again
EngageAnyway(act) ==
    /\ active' = act
    /\ apos' = 1
    /\ pc' = "pp_medias"
    /\ follower_limit' = 0 /\ followers' = 0 /\ fpos' = 0
    /\ UNCHANGED <<audit, loopVars, exitVars, metricsSaved>>

StartEngage(act) ==
    IF act = <<>>
    THEN AccountDone(FALSE, audit, 0, incsAtStart)
    ELSE /\ active' = act
         /\ apos' = 1
         /\ pc' = "pp_medias"
         /\ follower_limit' = 0 /\ followers' = 0 /\ fpos' = 0
         /\ UNCHANGED <<audit, loopVars, exitVars, metricsSaved>>

\* get_active_followers: the end of one turn of its loop
GafNext(act) ==
    IF sample_full(Len(act), follower_limit) \/ fpos >= followers
    THEN StartEngage(act)
    ELSE /\ active' = act
         /\ fpos' = fpos + 1
         /\ pc' = "gaf_info"
         /\ UNCHANGED <<follower_limit, followers, apos, audit, loopVars, exitVars,
                        metricsSaved>>

\* process_stories is over for active[apos]
NextFollower(aud) ==
    IF apos < Len(active)
    THEN /\ apos' = apos + 1
         /\ pc' = "pp_medias"
         /\ audit' = aud
         /\ UNCHANGED <<follower_limit, followers, fpos, active, loopVars, exitVars,
                        metricsSaved>>
    ELSE AccountDone(FALSE, aud, Len(active), incsAtStart)

\* the statements after the like call run when the call returned: what it
\* raises leaves the try body
CountsAnyLike(res) == res # "sys_exit"

counts_like(res) == res = "return"

\* the statements after the like call: increment_likes, then
\* track_hourly_engagement
Liked ==
    /\ LET t == increment_likes(likes_today, lastRunFile, today)
       IN  /\ likes_today' = t.likes
           /\ lastRunFile' = t.file
           /\ writes' = writes + t.wrote
    /\ incs' = incs + 1
    /\ incsToday' = incsToday + 1
    /\ hourly' = track_hourly_engagement(hourly, hour)
    /\ UNCHANGED <<trackerBuilt, resetOnLoad, loaded>>

\* process_target_account: secure_user_id_from_username(username)
PtaResolve ==
    /\ pc = "pta_resolve"
    /\ \E <<r, l>> \in AttemptAnswers :
        /\ LastAttempt(r, l)
        /\ sessionFile' = SessionAfter(r, l)
        /\ IF secure_request_result(r, l, attempts) = "return"
           THEN /\ pc' = "pta_info"
                /\ sample' = NoSample
                /\ incsAtStart' = incs
                /\ UNCHANGED <<audit, order, acct, processed, cooldowns, locals,
                               exitVars, metricsSaved>>
           ELSE AccountDone(TRUE, audit, NoSample, incs)
    /\ UNCHANGED trackerVars

\* process_target_account: secure_user_info(user_id).follower_count and
\* get_follower_limit
PtaInfo ==
    /\ pc = "pta_info"
    /\ \E <<r, l>> \in AttemptAnswers :
        /\ LastAttempt(r, l)
        /\ sessionFile' = SessionAfter(r, l)
        /\ IF secure_request_result(r, l, attempts) = "return"
           THEN /\ \E c \in FollowerCounts : follower_limit' \in get_follower_limit(c)
                /\ pc' = "gaf_resolve"
                /\ UNCHANGED <<audit, loopVars, followers, fpos, active, apos,
                               exitVars, metricsSaved>>
           ELSE AccountDone(TRUE, audit, NoSample, incsAtStart)
    /\ UNCHANGED trackerVars

\* get_active_followers: secure_user_id_from_username(username)
GafResolve ==
    /\ pc = "gaf_resolve"
    /\ \E <<r, l>> \in AttemptAnswers :
        /\ LastAttempt(r, l)
        /\ sessionFile' = SessionAfter(r, l)
        /\ IF secure_request_result(r, l, attempts) = "return"
           THEN /\ pc' = "gaf_followers"
                /\ UNCHANGED <<audit, loopVars, locals, exitVars, metricsSaved>>
           ELSE AccountDone(TRUE, audit, NoSample, incsAtStart)
    /\ UNCHANGED trackerVars

\* get_active_followers: secure_user_followers(user_id, amount=150)
GafFollowers ==
    /\ pc = "gaf_followers"
    /\ \E <<r, l>> \in AttemptAnswers :
        /\ LastAttempt(r, l)
        /\ sessionFile' = SessionAfter(r, l)
        /\ IF secure_request_result(r, l, attempts) = "return"
           THEN \E n \in 0..MaxFollowers :
                  IF n = 0
                  THEN StartEngage(<<>>)
                  ELSE /\ followers' = n
                       /\ fpos' = 1
                       /\ active' = <<>>
                       /\ pc' = "gaf_info"
                       /\ UNCHANGED <<follower_limit, apos, audit, loopVars, exitVars,
                                      metricsSaved>>
           ELSE AccountDone(TRUE, audit, NoSample, incsAtStart)
    /\ UNCHANGED trackerVars

\* get_active_followers: secure_user_info(fid) and is_private
GafInfo ==
    /\ pc = "gaf_info"
    /\ \E <<r, l>> \in AttemptAnswers :
        /\ LastAttempt(r, l)
        /\ sessionFile' = SessionAfter(r, l)
        /\ IF secure_request_result(r, l, attempts) = "return"
           THEN \E is_private \in BOOLEAN :
                  IF is_private
                  THEN GafNext(active)
                  ELSE /\ pc' = "gaf_stories"
                       /\ UNCHANGED <<audit, loopVars, locals, exitVars, metricsSaved>>
           ELSE GafNext(active)
    /\ UNCHANGED trackerVars

\* get_active_followers: secure_user_stories(fid)
GafStories ==
    /\ pc = "gaf_stories"
    /\ \E <<r, l>> \in AttemptAnswers :
        /\ LastAttempt(r, l)
        /\ sessionFile' = SessionAfter(r, l)
        /\ IF secure_request_result(r, l, attempts) = "return"
           THEN \E stories \in BOOLEAN :
                  IF stories
                  THEN GafNext(Append(active, fpos))
                  ELSE /\ pc' = "gaf_medias"
                       /\ UNCHANGED <<audit, loopVars, locals, exitVars, metricsSaved>>
           ELSE GafNext(active)
    /\ UNCHANGED trackerVars

\* get_active_followers: secure_user_medias(fid, amount=1)
GafMedias ==
    /\ pc = "gaf_medias"
    /\ \E <<r, l>> \in AttemptAnswers :
        /\ LastAttempt(r, l)
        /\ sessionFile' = SessionAfter(r, l)
        /\ IF secure_request_result(r, l, attempts) = "return"
           THEN \E medias \in BOOLEAN :
                  GafNext(IF medias THEN Append(active, fpos) ELSE active)
           ELSE GafNext(active)
    /\ UNCHANGED trackerVars

\* process_posts: secure_user_medias(user_id, amount=6) and the recent posts
PpMedias ==
    /\ pc = "pp_medias"
    /\ \E <<r, l>> \in AttemptAnswers :
        /\ LastAttempt(r, l)
        /\ sessionFile' = SessionAfter(r, l)
        /\ IF secure_request_result(r, l, attempts) = "return"
           THEN \E posts \in SUBSET PostAges :
                  LET valid_posts == {a \in posts : is_recent_post(a)}
                  IN  /\ pc' = IF valid_posts = {} THEN "ps_stories" ELSE "pp_like"
                      /\ UNCHANGED audit
           ELSE /\ pc' = "ps_stories"
                /\ audit' = audit \cup {"error"}
    /\ UNCHANGED <<loopVars, locals, exitVars, metricsSaved, trackerVars>>

\* process_posts: secure_media_like(post.id)
PpLike ==
    /\ pc = "pp_like"
    /\ \E <<r, l>> \in AttemptAnswers :
        /\ LastAttempt(r, l)
        /\ sessionFile' = SessionAfter(r, l)
        /\ IF secure_request_result(r, l, attempts) = "return"
           THEN /\ likeCalls' = likeCalls + 1
                /\ UNCHANGED audit
           ELSE /\ audit' = audit \cup {"error"}
                /\ UNCHANGED likeCalls
        /\ IF counts_like(secure_request_result(r, l, attempts))
           THEN Liked
           ELSE UNCHANGED <<lastRunFile, likes_today, trackerBuilt, incs, writes,
                            resetOnLoad, loaded, incsToday, hourly>>
    /\ pc' = "ps_stories"
    /\ UNCHANGED <<loopVars, locals, exitVars, metricsSaved>>

\* process_stories: secure_user_stories(user_id)
PsStories ==
    /\ pc = "ps_stories"
    /\ \E <<r, l>> \in AttemptAnswers :
        /\ LastAttempt(r, l)
        /\ sessionFile' = SessionAfter(r, l)
        /\ IF secure_request_result(r, l, attempts) = "return"
           THEN \E stories \in BOOLEAN :
                  IF stories
                  THEN /\ pc' = "ps_like"
                       /\ UNCHANGED <<audit, loopVars, locals, exitVars, metricsSaved>>
                  ELSE NextFollower(audit)
           ELSE NextFollower(audit \cup {"error"})
    /\ UNCHANGED trackerVars

\* process_stories: secure_story_like(story.id)
PsLike ==
    /\ pc = "ps_like"
    /\ \E <<r, l>> \in AttemptAnswers :
        /\ LastAttempt(r, l)
        /\ sessionFile' = SessionAfter(r, l)
        /\ IF secure_request_result(r, l, attempts) = "return"
           THEN /\ likeCalls' = likeCalls + 1
                /\ NextFollower(audit)
           ELSE /\ NextFollower(audit \cup {"error"})
                /\ UNCHANGED likeCalls
        /\ IF counts_like(secure_request_result(r, l, attempts))
           THEN Liked
           ELSE UNCHANGED <<lastRunFile, likes_today, trackerBuilt, incs, writes,
                            resetOnLoad, loaded, incsToday, hourly>>

\* the finally block of main: save_metrics, save_last_run(likes_today), the
\* session_complete event; then the process ends with the pending status
Finalize ==
    /\ pc = "finalize"
    /\ metricsSaved' = TRUE
    /\ lastRunFile' = save_last_run(likes_today, today)
    /\ writes' = writes + 1
    /\ audit' = audit \cup {"session_complete"}
    /\ pc' = "exited"
    /\ UNCHANGED <<exitVars, sessionFile, loopVars, attempts, loginFailure, locals,
                   likes_today, trackerBuilt, incs, resetOnLoad, loaded, incsToday,
                   hourly, likeCalls, proxyVars, served, today, hour, unitVars>>

Next ==
    \/ MainStart
    \/ SessionResolve
    \/ InitialLogin
    \/ TrackerInit
    \/ PtaResolve
    \/ PtaInfo
    \/ GafResolve
    \/ GafFollowers
    \/ GafInfo
    \/ GafStories
    \/ GafMedias
    \/ PpMedias
    \/ PpLike
    \/ PsStories
    \/ PsLike
    \/ ExecRetry
    \/ ExecLoginFatal
    \/ Finalize

Spec == Init /\ [][Next]_vars

(* ------------------------------------------------------------------ *)
(* Unit run of process_posts and process_stories: calls one after       *)
(* another on a built tracker, while the clock passes a boundary of the *)
(* peak hours. A call of the client is what _secure_request ends in;    *)
(* there are no proxies.                                                *)
(* ------------------------------------------------------------------ *)
ExecOutcomes == Final \cup {"sys_exit"}

\* the hours either side of the two boundaries of get_time_aware_delay
EngageHours == {7, 8, 19, 20}

\* likes_today when the calls begin
EngageStarts == {0, SAVE_EVERY - 2}

InitEngage ==
    /\ pc = "engage_unit"
    /\ IdleProc /\ IdleMonitor /\ IdleUnits
    /\ proxies = <<>> /\ index = 0 /\ served = <<>>
    /\ today = 1
    /\ hour \in EngageHours
    /\ likes_today \in EngageStarts
    /\ lastRunFile = Record(today, likes_today)
    /\ loaded = lastRunFile
    /\ trackerBuilt = TRUE /\ resetOnLoad = FALSE
    /\ incs = 0 /\ writes = 0

\* the function returns 0: nothing to like, or its except clause has written
\* the error event
EngageNothing(errored) ==
    /\ ret' = 0
    /\ audit' = IF errored THEN audit \cup {"error"} ELSE audit
    /\ UNCHANGED <<pc, exitVars, trackerVars, slept>>

\* sys.exit(1) of a re-login inside a call of the client
EngageExit ==
    /\ pc' = "exited"
    /\ exitCode' = 1
    /\ exitCause' = "relogin"
    /\ UNCHANGED <<audit, trackerVars, ret, slept>>

\* the like call, ended in k, and what follows it
EngageLike(k) ==
    /\ likeCalls' = IF k = "return" THEN likeCalls + 1 ELSE likeCalls
    /\ IF counts_like(k)
       THEN /\ Liked
            /\ \E d \in engagement_sleep :
                  slept' = [kind |-> "engagement", delay |-> d, hour |-> hour]
            /\ ret' = 1
            /\ UNCHANGED <<pc, exitVars, audit>>
       ELSE /\ UNCHANGED <<lastRunFile, likes_today, trackerBuilt, incs, writes,
                            resetOnLoad, loaded, incsToday, hourly>>
            /\ IF k = "sys_exit"
               THEN /\ pc' = "exited"
                    /\ exitCode' = 1
                    /\ exitCause' = "relogin"
                    /\ UNCHANGED <<audit, ret, slept>>
               ELSE /\ ret' = 0
                    /\ audit' = audit \cup {"error"}
                    /\ UNCHANGED <<pc, exitVars, slept>>

ProcessPosts ==
    /\ pc = "engage_unit"
    /\ likeCalls < MaxLikes
    /\ \E m \in ExecOutcomes :
        CASE m = "return" ->
                \E posts \in SUBSET PostAges :
                    LET valid_posts == {a \in posts : is_recent_post(a)}
                    IN  IF valid_posts = {}
                        THEN EngageNothing(FALSE)
                        ELSE \E k \in ExecOutcomes : EngageLike(k)
          [] m = "sys_exit" -> EngageExit
          [] OTHER -> EngageNothing(TRUE)
    /\ UNCHANGED <<sessionFile, metricsSaved, loopVars, attempts, loginFailure, locals,
                   proxyVars, served, today, hour, inv, page, limit, returned>>

ProcessStories ==
    /\ pc = "engage_unit"
    /\ likeCalls < MaxLikes
    /\ \E m \in ExecOutcomes :
        CASE m = "return" ->
                \E stories \in BOOLEAN :
                    IF ~stories
                    THEN EngageNothing(FALSE)
                    ELSE \E k \in ExecOutcomes : EngageLike(k)
          [] m = "sys_exit" -> EngageExit
          [] OTHER -> EngageNothing(TRUE)
    /\ UNCHANGED <<sessionFile, metricsSaved, loopVars, attempts, loginFailure, locals,
                   proxyVars, served, today, hour, inv, page, limit, returned>>

\* the clock passes the start or the end of the peak hours
HourChange ==
    /\ pc = "engage_unit"
    /\ hour + 1 \in EngageHours
    /\ hour' = hour + 1
    /\ UNCHANGED <<procVars, trackerVars, proxyVars, served, today, unitVars>>

NextEngage ==
    \/ ProcessPosts
    \/ ProcessStories
    \/ HourChange

SpecEngage == InitEngage /\ [][NextEngage]_vars

(* ------------------------------------------------------------------ *)
(* Properties                                                           *)
(* ------------------------------------------------------------------ *)

\* C1: once the tracker holds DAILY_LIMIT likes no further like is made, so
\* likes_today never rises above DAILY_LIMIT in a run.
C1_QuotaNeverExceeded ==
    trackerBuilt => likes_today <= DAILY_LIMIT

\* C2: one invocation of _secure_request makes at most two attempts of the
\* operation: with two attempts made it has returned or raised, it is never
\* about to make a third.
C2_AtMostTwoAttempts ==
    attempts < 2

\* C3: nothing that happens after start-up (the tracker is built, the loop
\* over the accounts has begun) ends the process with a non-zero status: a
\* non-zero status comes from start-up alone.
C3_NoExitAfterStartup ==
    (pc = "exited" /\ trackerBuilt) => exitCode = 0

\* C4: every termination of a run that has written session_start comes after
\* the finalization: metrics saved, the quota record written with the count
\* in memory, the session_complete event written.
C4_ExitAfterFinalization ==
    (pc = "exited" /\ "session_start" \in audit) =>
        /\ metricsSaved
        /\ "session_complete" \in audit
        /\ lastRunFile.present /\ lastRunFile.count = likes_today

\* C5: the accounts handed to process_target_account are always a prefix of
\* the shuffled list, and a run that the process does not exit from ends
\* with every target processed exactly once, in the shuffled order, whatever
\* was raised while processing an account.
C5_EveryTargetOnce ==
    /\ Len(processed) <= Len(order)
    /\ processed = SubSeq(order, 1, Len(processed))
    /\ (pc \in {"finalize", "exited"} /\ trackerBuilt /\ exitCode = 0) =>
            /\ processed = order
            /\ Len(processed) = NumTargets
            /\ \A t \in Targets : Cardinality({i \in 1..Len(processed) : processed[i] = t}) = 1

\* the last target is being processed after an error event of an earlier one
C5_Witness ==
    /\ pc = "pta_resolve" /\ acct = NumTargets /\ NumTargets > 1
    /\ "error" \in audit
    /\ processed = order

\* C6: a client error raised by a login attempt, the one retried with the
\* verification code included, ends the process with a non-zero status.
C6_LoginFailureFatal ==
    loginFailure # "none" => exitCode # 0

\* C7: with N >= 1 proxies the k-th call of get_proxy returns entry
\* (k-1) mod N of the pool, so every window of N consecutive calls returns
\* each entry once, in pool order, and the cursor stays in [0, N); with no
\* proxies every call returns none and the cursor stays 0.
C7_RoundRobin ==
    pc = "proxy_unit" =>
        LET N == Len(proxies)
        IN  IF N = 0
            THEN /\ index = 0
                 /\ \A k \in 1..Len(served) : served[k] = NoProxy
            ELSE /\ index \in 0..(N - 1)
                 /\ index = Len(served) % N
                 /\ \A k \in 1..Len(served) : served[k] = proxies[((k - 1) % N) + 1]
                 /\ \A k \in 1..(Len(served) - N + 1) : \A j \in 1..N :
                        Cardinality({m \in k..(k + N - 1) :
                                        ((m - 1) % N) + 1 = j /\ served[m] = proxies[j]}) = 1

\* the cursor has wrapped more than once over a pool of several proxies
C7_Witness ==
    /\ pc = "proxy_unit"
    /\ Len(proxies) >= 2
    /\ Len(served) > 2 * Len(proxies)

\* C8: constructing the tracker over a record of another date than today
\* leaves likes_today = 0 whatever count the record holds; over a record of
\* today it leaves likes_today = the count of the record.
C8_DateMismatchFresh ==
    [][(~trackerBuilt /\ trackerBuilt' /\ lastRunFile.present) =>
            /\ (lastRunFile.date # today => likes_today' = 0)
            /\ (lastRunFile.date = today => likes_today' = lastRunFile.count)]_vars

\* the tracker was built over a record of another day that held likes
C8_Witness ==
    /\ trackerBuilt /\ incs = 0
    /\ loaded.present /\ loaded.count > 0 /\ resetOnLoad
    /\ likes_today = 0

\* C9: the count in memory is never more than SAVE_EVERY - 1 above the count
\* in last_run.json.
C9_AtMostNineUnsaved ==
    trackerBuilt => likes_today - lastRunFile.count <= SAVE_EVERY - 1

C9_Witness ==
    /\ trackerBuilt
    /\ loaded.present /\ ~resetOnLoad /\ loaded.count > 0
    /\ likes_today - lastRunFile.count = SAVE_EVERY - 1

\* C10: from a start at count 0, the first SAVE_EVERY - 1 increments write
\* nothing to last_run.json and leave likes_today = the number of
\* increments; increment number SAVE_EVERY is the first to write.
FreshStart == trackerBuilt /\ (resetOnLoad \/ loaded.count = 0)
WritesAtBuild == IF resetOnLoad THEN 1 ELSE 0

C10_FirstNineUnwritten ==
    (pc = "tracker_unit" /\ FreshStart) =>
        /\ incs < SAVE_EVERY =>
                /\ writes = WritesAtBuild
                /\ likes_today = incs
                /\ lastRunFile.count = 0
        /\ incs = SAVE_EVERY =>
                /\ writes = WritesAtBuild + 1
                /\ likes_today = SAVE_EVERY
                /\ lastRunFile.count = SAVE_EVERY

C10_Witness ==
    /\ pc = "tracker_unit" /\ FreshStart
    /\ incs = SAVE_EVERY
    /\ writes = WritesAtBuild + 1

\* C11: an invocation whose first attempt is answered login_required and
\* whose second attempt succeeds returns the result, having rotated the
\* device once, logged in once and recorded one call: one rotation event and
\* no error event beside it.
C11_OneRotationOnRetry ==
    (inv.answers = <<"login_required", "ok">>) =>
        /\ inv.result = "return"
        /\ inv.rots = 1
        /\ inv.logins = 1
        /\ inv.calls = 1
        /\ inv.errs + inv.rots = 1

C11_Witness ==
    /\ pc = "exec_unit"
    /\ inv.answers = <<"login_required", "ok">>
    /\ inv.result = "return"
    /\ attempts = 0

\* C12: for every page, every limit >= 1 and every outcome of the checks,
\* get_active_followers returns at most limit followers, in page order, none
\* of them a follower whose lookup, story check or media check failed or
\* whose profile is private.
C12_SampleBounded ==
    pc = "sampler_done" =>
        /\ limit >= 1 => Len(returned) <= limit
        /\ \A k \in 1..Len(returned) :
                /\ returned[k] \in 1..Len(page)
                /\ page[returned[k]] \notin {"info_failed", "stories_failed",
                                            "medias_failed", "private"}
        /\ \A j, k \in 1..Len(returned) : j < k => returned[j] < returned[k]

\* the limit cut the list short of an active follower, after a failed check
\* and a private profile were passed over
C12_Witness ==
    /\ pc = "sampler_done"
    /\ Len(returned) = limit
    /\ \E i \in 1..Len(page) :
            /\ is_active(page[i])
            /\ \A k \in 1..Len(returned) : returned[k] < i
    /\ \E i \in 1..Len(page) :
            /\ page[i] \in {"info_failed", "private"}
            /\ i < returned[Len(returned)]

\* C13: the sleep after a like lasts between 0.7 * 30 and 0.7 * 55 seconds
\* when the like is made in the hours 8..19, and between 1.3 * 30 and
\* 1.3 * 55 seconds otherwise.
C13_EngagementDelayScaled ==
    slept.kind = "engagement" =>
        /\ time_aware_range(ENGAGE_DELAY, slept.hour)[1] <= slept.delay
        /\ slept.delay <= time_aware_range(ENGAGE_DELAY, slept.hour)[2]

\* the accounts of the loop whose processing is over
AccountsEnded ==
    IF pc \in LoopSites \/ exitCode # 0 THEN Len(processed) - 1 ELSE Len(processed)

\* C14: an account for which get_active_followers returned no follower ends
\* with no like made and no quota increment since it began, and main has
\* slept the cooldown of that account, as of every account before it, when
\* the next account begins or the loop ends.
C14_EmptySampleCooldown ==
    sample = 0 =>
        /\ incs = incsAtStart
        /\ pc \in {"pta_resolve", "finalize", "exited"}
        /\ cooldowns >= 1
        /\ cooldowns = AccountsEnded

\* the second account begins after a first that had no active follower
C14_Witness ==
    /\ sample = 0
    /\ pc = "pta_resolve" /\ acct = 2 /\ attempts = 0
    /\ cooldowns = 1
    /\ incs = 0

\* C15: main sleeps one cooldown after every account whose processing is
\* over, whether it ran to its end or raised: the cooldowns slept are always
\* as many as the accounts that are over, one between any two consecutive
\* accounts.
C15_OneCooldownPerAccount ==
    (pc \in LoopSites \cup {"finalize", "exited"} /\ Len(processed) > 0) =>
        cooldowns = AccountsEnded

\* the second account begins after a first whose processing raised
C15_Witness ==
    /\ pc = "pta_resolve" /\ acct = 2 /\ attempts = 0
    /\ sample = NoSample
    /\ "error" \in audit
    /\ cooldowns = 1

\* C16: an attempt answered by a client error other than login_required
\* ends the invocation: the error counter has risen by one in the
\* invocation, the device was rotated once for that attempt (and once for
\* each login_required answer before it), the client error is raised to the
\* caller and no further attempt is under way.
C16_ClientErrorOnce ==
    (Len(inv.answers) >= 1 /\ inv.answers[Len(inv.answers)] = "client_error") =>
        /\ inv.result = "raise_client"
        /\ inv.errs = 1
        /\ inv.rots = Len(inv.answers)
        /\ inv.logins = Len(inv.answers) - 1
        /\ inv.calls = 0
        /\ attempts = 0

C16_Witness ==
    /\ pc = "exec_unit"
    /\ inv.answers = <<"client_error">>
    /\ inv.result = "raise_client"
    /\ inv.errs = 1 /\ inv.rots = 1

\* C17: an invocation that has returned or raised has called track_call or
\* track_error at least once.
C17_MetricsAlwaysTouched ==
    inv.result \in Final => inv.calls + inv.errs >= 1

\* the likes of today the tracker took over from the record it was built on
CarriedOver ==
    IF loaded.present /\ ~resetOnLoad /\ loaded.date = today THEN loaded.count ELSE 0

\* C18: a record the process has written under today's date counts no more
\* than the likes made today: those taken over from a record of today at
\* construction plus the increments made since the date last changed. Likes
\* made before a change of date are not written under the new date.
C18_RecordCountsOwnDate ==
    (trackerBuilt /\ lastRunFile.present /\ lastRunFile.date = today) =>
        lastRunFile.count <= CarriedOver + incsToday

\* C19: a call of process_posts or process_stories whose like call returned
\* raises likes_today by exactly one and returns 1; any other call that
\* returns (the like call raised, or there was no recent post or no story,
\* or the listing raised) returns 0 and leaves likes_today, last_run.json
\* and the hourly histogram as they were.
C19_IncrementOnlyOnLike ==
    [][(pc = "engage_unit" /\ pc' = "engage_unit" /\ hour' = hour) =>
            IF likeCalls' = likeCalls + 1
            THEN /\ likes_today' = likes_today + 1
                 /\ ret' = 1
            ELSE /\ ret' = 0
                 /\ likes_today' = likes_today
                 /\ lastRunFile' = lastRunFile
                 /\ hourly' = hourly
                 /\ incs' = incs]_vars

\* a call returned 0 after its like call raised, likes having been counted
\* before it
C19_Witness ==
    /\ pc = "engage_unit"
    /\ ret = 0
    /\ "error" \in audit
    /\ likeCalls >= 1

RECURSIVE SumOver(_, _)
SumOver(f, S) ==
    IF S = {} THEN 0
    ELSE LET x == CHOOSE y \in S : TRUE IN f[x] + SumOver(f, S \ {x})

\* C20: the increment_likes calls of the run, the like calls that returned
\* and the total of the hourly histogram are the same number in every state.
C20_IncrementsMatchLikes ==
    /\ incs = likeCalls
    /\ likeCalls = SumOver(hourly, Hours)

\* likes were counted on both sides of a boundary of the peak hours
C20_Witness ==
    /\ likeCalls >= 2
    /\ \E h1, h2 \in Hours : h1 # h2 /\ hourly[h1] >= 1 /\ hourly[h2] >= 1

====
